---- MODULE Spec2Model ----
(***************************************************************************)
(* PropellerAds MCP server: the analytics layer of server.py               *)
(* (calculate_metrics and the handle_tool branches) over the data access   *)
(* layer of client.py.                                                     *)
(*                                                                         *)
(* Python dicts are functions whose DOMAIN is the set of keys present.     *)
(* Base statistics are integers.  Rounded ratios are held as scaled        *)
(* integers: ctr, cvr, cpa and roi in hundredths (round(x, 2)), cpc in     *)
(* ten-thousandths (round(x, 4)).                                          *)
(***************************************************************************)
EXTENDS Integers, Sequences, FiniteSets

VARIABLES
    stats,      \* calculate_metrics: the argument record
    metrics,    \* calculate_metrics: the returned record, NotCalled before the call
    token,      \* PROPELLERADS_API_TOKEN is set in the environment
    _client,    \* server.py:22  the lazily created client, "None" until created
    constructed, \* the number of PropellerAdsClient objects constructed so far
    name,       \* call_tool: the tool name of the last invocation
    args,       \* call_tool: the arguments of the last invocation
    upstream,   \* what the remote API answers during the last invocation
    requests,   \* the HTTP requests the last invocation attempted, in order
    result      \* the TextContent the last invocation returned

vars == <<stats, metrics, token, _client, constructed, name, args, upstream,
          requests, result>>
toolVars == <<token, _client, constructed, name, args, upstream, requests, result>>

(*************************** bounds ****************************************)
MaxVal == 3
MaxCampaigns == 2
MaxZones == 2
MaxChange == 7

(*************************** Python values *********************************)
\* Python's None, kept apart from every number of the model.
None == 0 - 1000

\* Truthiness of a value: None and 0 are falsy.
Falsy(x) == x = None \/ x = 0

\* a or b
Or(a, b) == IF Falsy(a) THEN b ELSE a

\* d.get(k, default)
get(d, k, default) == IF k \in DOMAIN d THEN d[k] ELSE default

\* Nearest integer to n / d for n >= 0, d > 0, ties to the even neighbour.
RoundHalfEven(n, d) ==
    LET q == n \div d
        r == n % d
    IN  IF 2 * r < d THEN q
        ELSE IF 2 * r > d THEN q + 1
        ELSE IF q % 2 = 0 THEN q ELSE q + 1

\* round(n / d, places) for d > 0, as an integer scaled by `scale` = 10^places.
round(n, d, scale) ==
    IF n >= 0 THEN RoundHalfEven(n * scale, d)
    ELSE 0 - RoundHalfEven((0 - n) * scale, d)

\* {}
NoDict == [k \in {} |-> 0]

\* s[:n]
Take(s, n) == IF n >= Len(s) THEN s ELSE SubSeq(s, 1, n)

\* [f(x) for x in s]
Map(f(_), s) == [i \in 1 .. Len(s) |-> f(s[i])]

\* list.sort(key=..., reverse=True) where keys[i] is the key of s[i]: descending
\* by key, elements with equal keys keep their original order.
sort_desc(s, keys) ==
    LET n == Len(s)
        rank(i) == 1 + Cardinality({j \in 1 .. n :
                        keys[j] > keys[i] \/ (keys[j] = keys[i] /\ j < i)})
    IN  [p \in 1 .. n |-> s[CHOOSE i \in 1 .. n : rank(i) = p]]

RECURSIVE sum(_)
\* sum(s)
sum(s) == IF s = <<>> THEN 0 ELSE Head(s) + sum(Tail(s))

(*************************** calculate_metrics *****************************)
DerivedKeys == {"ctr", "cvr", "cpc", "cpa", "roi"}

\* The field read without `or 0`: a null value is used as it is.
base_unchecked(s, k) == get(s, k, 0)

\* server.py:49-51,53  stats.get(k, 0) or 0
base(s, k) == Or(get(s, k, 0), 0)

\* The spend read from 'spend' alone, without the fallback to 'cost'.
resolved_spend_only(s) == Or(get(s, "spend", 0), 0)

\* server.py:52  spend = stats.get("spend", 0) or stats.get("cost", 0) or 0
resolved_spend(s) == Or(Or(get(s, "spend", 0), get(s, "cost", 0)), 0)

\* The outcome of a Python call or expression: the exception raised ("" when
\* none) and the value returned.
Return(v) == [exc |-> "", ret |-> v]
Raise(e) == [exc |-> e, ret |-> 0]

\* n / d, rounded: Python raises ZeroDivisionError on a zero divisor.
div(n, d, scale) ==
    IF d = 0 THEN Raise("ZeroDivisionError") ELSE Return(round(n, d, scale))

\* The conditional expression with its guard dropped: n / d whatever cond is.
unguarded(cond, n, d, scale) == div(n, d, scale)

\* (n / d) if cond else 0
guarded(cond, n, d, scale) == IF cond THEN div(n, d, scale) ELSE Return(0)

\* server.py:55  ctr = (clicks / impressions * 100) if impressions > 0 else 0
ctr_of(s) == guarded(base(s, "impressions") > 0,
                     base(s, "clicks") * 100, base(s, "impressions"), 100)
\* server.py:56  cvr = (conversions / clicks * 100) if clicks > 0 else 0
cvr_of(s) == guarded(base(s, "clicks") > 0,
                     base(s, "conversions") * 100, base(s, "clicks"), 100)
\* server.py:57  cpc = spend / clicks if clicks > 0 else 0
cpc_of(s) == guarded(base(s, "clicks") > 0,
                     resolved_spend(s), base(s, "clicks"), 10000)
\* server.py:58  cpa = spend / conversions if conversions > 0 else 0
cpa_of(s) == guarded(base(s, "conversions") > 0,
                     resolved_spend(s), base(s, "conversions"), 100)
\* server.py:59  roi = ((revenue - spend) / spend * 100) if spend > 0 else 0
roi_of(s) == guarded(resolved_spend(s) > 0,
                     (base(s, "revenue") - resolved_spend(s)) * 100,
                     resolved_spend(s), 100)

\* A derived value added to the value the record already holds under its key.
accumulated(s, k, out) ==
    IF out.exc # "" THEN out ELSE Return(Or(get(s, k, 0), 0) + out.ret)

derived_accumulating(s, k) ==
    CASE k = "ctr" -> accumulated(s, k, ctr_of(s))
      [] k = "cvr" -> accumulated(s, k, cvr_of(s))
      [] k = "cpc" -> accumulated(s, k, cpc_of(s))
      [] k = "cpa" -> accumulated(s, k, cpa_of(s))
      [] k = "roi" -> accumulated(s, k, roi_of(s))

\* server.py:55-67  the five derived values, rounded
derived(s, k) ==
    CASE k = "ctr" -> ctr_of(s)
      [] k = "cvr" -> cvr_of(s)
      [] k = "cpc" -> cpc_of(s)
      [] k = "cpa" -> cpa_of(s)
      [] k = "roi" -> roi_of(s)

\* server.py:47-68.  A raise in any of the five expressions ends the call;
\* otherwise the result is {**stats, "ctr": ..., ..., "roi": ...}.
calculate_metrics(s) ==
    IF \E k \in DerivedKeys : derived(s, k).exc # ""
    THEN Raise("ZeroDivisionError")
    ELSE Return([k \in (DOMAIN s) \cup DerivedKeys |->
                    IF k \in DerivedKeys THEN derived(s, k).ret ELSE s[k]])

(*************************** spend, as read outside calculate_metrics ******)
\* server.py:714, 722, 731 (find_underperforming_zones) and 850, 859
\* (auto_blacklist_zones):  z.get("spend", z.get("cost", 0)) or 0
zone_spend(z) == Or(get(z, "spend", get(z, "cost", 0)), 0)

\* server.py:638 (compare_periods, spend row):  m.get('spend', 0)
period_spend(m) == get(m, "spend", 0)

(*************************** client.py: the data access layer ***************)
\* The outcome of a client call: the exception raised ("" when none) with its
\* detail, the value returned, and the HTTP requests it attempted.
Returned(v, reqs) == [exc |-> "", detail |-> "", ret |-> v, reqs |-> reqs]
Raised(e, d, reqs) == [exc |-> e, detail |-> d, ret |-> <<>>, reqs |-> reqs]

\* Calling a method with a keyword its signature does not have.
TypeError(reqs) == Raised("TypeError", "unexpected keyword argument", reqs)

\* The call binds when every keyword passed is a parameter of the method.
binds(kw, params) == DOMAIN kw \subseteq params

Request(method, endpoint, campaign_id, group_by, day_from, zone_ids) ==
    [method |-> method, endpoint |-> endpoint, campaign_id |-> campaign_id,
     group_by |-> group_by, day_from |-> day_from, zone_ids |-> zone_ids]

\* The statistics rows the remote API holds for a query: zone rows when
\* grouped by zone, else the rows of the campaign or, with no campaign
\* filter, of the period.
statistics_rows(up, req) ==
    IF req.group_by = "zone_id" THEN up.zones
    ELSE IF req.campaign_id # None
    THEN get(up.stats, req.campaign_id, <<>>)
    ELSE get(up.stats, req.day_from, <<>>)

\* The body the remote API sends for a request it answers with 2xx: the
\* envelope key and the payload under it.
Body(up, req) ==
    [wrap |-> up.wrap,
     data |-> IF req.endpoint = "/adv/campaigns" THEN up.campaigns
              ELSE IF req.endpoint = "/adv/statistics"
              THEN statistics_rows(up, req)
              ELSE <<>>]

\* A second attempt after a failed one.
_request_retrying(up, n, req) ==
    IF up.fail # n + 1 THEN Returned(Body(up, req), <<req>>)
    ELSE IF up.failKind = "json"
    THEN Raised("JSONDecodeError", up.failKind, <<req, req>>)
    ELSE Raised("PropellerAdsError", up.failKind, <<req, req>>)

\* client.py:67-94.  One attempt; n requests were attempted before it.
\* HTTPStatusError and RequestError become PropellerAdsError; a body that is
\* not JSON makes response.json() raise, which no except clause catches.
_request(up, n, req) ==
    IF up.fail # n + 1 THEN Returned(Body(up, req), <<req>>)
    ELSE IF up.failKind = "json"
    THEN Raised("JSONDecodeError", up.failKind, <<req>>)
    ELSE Raised("PropellerAdsError", up.failKind, <<req>>)

\* client.py:96-112 with the isinstance(data, list) test of its callers: the
\* payload under "result" or "data"; a dict with neither key is returned as
\* it is, which is not a list, and the callers then return [].
_extract_data(body) ==
    IF body.wrap \in {"result", "data"} THEN body.data ELSE <<>>

\* client.py:153-162  sorted by id descending, cut to limit
campaigns_of(r, limit) ==
    IF r.exc # "" THEN r
    ELSE Returned(Take(sort_desc(_extract_data(r.ret),
                                 Map(LAMBDA c : get(c, "id", 0),
                                     _extract_data(r.ret))),
                       limit), r.reqs)

\* client.py:116-162
ListCampaignsParams ==
    {"status", "is_archived", "limit", "formats", "page", "page_size"}
list_campaigns(up, n, kw) ==
    IF ~binds(kw, ListCampaignsParams) THEN TypeError(<<>>)
    ELSE campaigns_of(_request(up, n, Request("GET", "/adv/campaigns",
                                              None, "", None, <<>>)),
                      get(kw, "limit", 20))

\* client.py:231-250  the query: the default window starts 7 days back; a
\* falsy campaign_id is not sent
statistics_request(kw) ==
    Request("GET", "/adv/statistics",
            IF Falsy(get(kw, "campaign_id", None)) THEN None ELSE kw["campaign_id"],
            get(kw, "group_by", ""),
            IF Falsy(get(kw, "day_from", None)) THEN 0 - 7 ELSE kw["day_from"],
            <<>>)

\* client.py:252-254
statistics_of(r) ==
    IF r.exc # "" THEN r ELSE Returned(_extract_data(r.ret), r.reqs)

\* client.py:211-254
GetStatisticsParams ==
    {"day_from", "day_to", "group_by", "campaign_id", "zone_id", "tz"}
get_statistics(up, n, kw) ==
    IF ~binds(kw, GetStatisticsParams) THEN TypeError(<<>>)
    ELSE statistics_of(_request(up, n, statistics_request(kw)))

\* client.py:268  stats[0] if stats else {}
first_or_empty(r) ==
    IF r.exc # "" THEN r
    ELSE Returned(IF r.ret # <<>> THEN r.ret[1] ELSE NoDict, r.reqs)

\* client.py:256-268
GetCampaignStatisticsParams == {"campaign_id", "day_from", "day_to"}
get_campaign_statistics(up, n, kw) ==
    IF ~binds(kw, GetCampaignStatisticsParams) THEN TypeError(<<>>)
    ELSE first_or_empty(get_statistics(up, n,
                            [day_from |-> get(kw, "day_from", None),
                             day_to |-> get(kw, "day_to", None),
                             campaign_id |-> kw["campaign_id"]]))

\* client.py:284  stats[:limit]
cut_to(r, limit) ==
    IF r.exc # "" THEN r ELSE Returned(Take(r.ret, limit), r.reqs)

\* client.py:270-284
GetZoneStatisticsParams == {"campaign_id", "day_from", "day_to", "limit"}
get_zone_statistics(up, n, kw) ==
    IF ~binds(kw, GetZoneStatisticsParams) THEN TypeError(<<>>)
    ELSE cut_to(get_statistics(up, n,
                    [day_from |-> get(kw, "day_from", None),
                     day_to |-> get(kw, "day_to", None),
                     group_by |-> "zone_id",
                     campaign_id |-> get(kw, "campaign_id", None)]),
                get(kw, "limit", 100))

\* client.py:355-363
add_zones_to_blacklist(up, n, campaign_id, zone_ids) ==
    _request(up, n, Request("POST", "/targeting/zones/blacklist",
                            campaign_id, "", None, zone_ids))

(*************************** server.py: handle_tool *************************)
\* The text handle_tool returns, by its content: which message it is, the
\* table rows, the reported count and total, the zone-id list.
Text(kind, rows, count, total, ids) ==
    [kind |-> kind, rows |-> rows, count |-> count, total |-> total,
     ids |-> ids, detail |-> ""]

NoData(reqs) == Returned(Text("no_data", <<>>, 0, 0, <<>>), reqs)

\* args["k"] of a missing key
KeyError(k, reqs) == Raised("KeyError", k, reqs)

\* {**c, **m}
merge(c, m) ==
    [k \in (DOMAIN c) \cup (DOMAIN m) |-> IF k \in DOMAIN m THEN m[k] ELSE c[k]]

\* The keywords every statistics call of handle_tool passes its dates under.
dated(kw, a) ==
    merge(kw, [date_from |-> get(a, "date_from", None),
               date_to |-> get(a, "date_to", None)])

\* server.py:743, 782, 858  [z.get("zone_id") for z in zs if z.get("zone_id")]
zone_ids_of(zs) ==
    Map(LAMBDA z : z["zone_id"],
        SelectSeq(zs, LAMBDA z : ~Falsy(get(z, "zone_id", None))))

\* server.py:709-717, 844-853  the zones with spend >= min_spend and
\* conv <= max_conv, in the order of `zones`
underperforming_of(zones, a) ==
    SelectSeq(zones, LAMBDA z :
        /\ zone_spend(z) >= get(a, "min_spend", 10)
        /\ Or(get(z, "conversions", 0), 0) <= get(a, "max_conversions", 0))

\* server.py:724-746  the table of the sorted zones, their total and ids
underperforming_table(sorted, reqs) ==
    Returned(Text("report", sorted, Len(sorted), sum(Map(zone_spend, sorted)),
                  zone_ids_of(sorted)), reqs)

\* server.py:719-722
underperforming_report(underperforming, reqs) ==
    IF underperforming = <<>> THEN NoData(reqs)
    ELSE underperforming_table(
             sort_desc(underperforming, Map(zone_spend, underperforming)), reqs)

\* server.py:709-746  after the fetch
underperforming_zones(zones, a) ==
    IF zones.exc # "" THEN zones
    ELSE underperforming_report(underperforming_of(zones.ret, a), zones.reqs)

\* server.py:702-746
find_underperforming_zones(up, a) ==
    IF "campaign_id" \notin DOMAIN a THEN KeyError("campaign_id", <<>>)
    ELSE underperforming_zones(
             get_zone_statistics(up, 0,
                 dated([campaign_id |-> a["campaign_id"]], a)), a)

\* [calculate_metrics(z) for z in zones], given the outcome of each call
enriched_of(outcomes) ==
    IF \E i \in DOMAIN outcomes : outcomes[i].exc # ""
    THEN Raise("ZeroDivisionError")
    ELSE Return(Map(LAMBDA o : o.ret, outcomes))

\* server.py:760-764  the enriched zones with conversions >= min_conv and
\* roi >= min_roi (roi is held in hundredths) ...
top_zones_filter(enriched, a) ==
    SelectSeq(enriched, LAMBDA z :
        /\ Or(get(z, "conversions", 0), 0) >= get(a, "min_conversions", 1)
        /\ Or(get(z, "roi", 0), 0) >= get(a, "min_roi", 0) * 100)

\* ... by roi descending
by_roi(rows) == sort_desc(rows, Map(LAMBDA x : get(x, "roi", 0), rows))

\* server.py:773-783  the first `limit` rows and their ids
top_zones_table(shown, reqs) ==
    Returned(Text("report", shown, Len(shown), 0, zone_ids_of(shown)), reqs)

\* server.py:766-785
top_zones_report(top_zones, limit, reqs) ==
    IF top_zones = <<>> THEN NoData(reqs)
    ELSE top_zones_table(Take(top_zones, limit), reqs)

\* server.py:759-785
top_zones_of(enriched, a, reqs) ==
    IF enriched.exc # "" THEN Raised(enriched.exc, "division by zero", reqs)
    ELSE top_zones_report(by_roi(top_zones_filter(enriched.ret, a)),
                          get(a, "limit", 20), reqs)

\* server.py:755-785  after the fetch
top_zones(zones, a) ==
    IF zones.exc # "" THEN zones
    ELSE top_zones_of(enriched_of(Map(calculate_metrics, zones.ret)), a,
                      zones.reqs)

\* server.py:748-785
find_top_zones(up, a) ==
    IF "campaign_id" \notin DOMAIN a THEN KeyError("campaign_id", <<>>)
    ELSE top_zones(
             get_zone_statistics(up, 0,
                 dated([campaign_id |-> a["campaign_id"]], a)), a)

\* server.py:804-807  the campaign joins `opportunities` when it qualifies
\* (roi is held in hundredths)
qualified(c, m, a, opportunities) ==
    IF /\ Or(get(m, "conversions", 0), 0) >= get(a, "min_conversions", 10)
       /\ Or(get(m, "roi", 0), 0) >= get(a, "min_roi", 50) * 100
    THEN Append(opportunities, merge(c, m))
    ELSE opportunities

RECURSIVE scan_campaigns(_, _, _, _, _, _)

\* server.py:802-807  the loop body after the fetch `st` of campaign i, with
\* `m` the enrichment of the fetched record; reqs includes the fetch
scan_step(up, a, campaigns, i, opportunities, reqs, st, m) ==
    IF st.exc # "" THEN Raised(st.exc, st.detail, reqs)
    ELSE IF st.ret = NoDict
    THEN scan_campaigns(up, a, campaigns, i + 1, opportunities, reqs)
    ELSE IF m.exc # "" THEN Raised(m.exc, "division by zero", reqs)
    ELSE scan_campaigns(up, a, campaigns, i + 1,
                        qualified(campaigns[i], m.ret, a, opportunities), reqs)

\* The statistics fetch of one campaign, st, then the rest of the loop body.
scan_fetched(up, a, campaigns, i, opportunities, reqs, st) ==
    scan_step(up, a, campaigns, i, opportunities, reqs \o st.reqs, st,
              calculate_metrics(st.ret))

\* server.py:795-807  the loop from campaign i on, with the opportunities
\* found and the requests attempted so far; an exception ends it
scan_campaigns(up, a, campaigns, i, opportunities, reqs) ==
    IF i > Len(campaigns) THEN Returned(opportunities, reqs)
    ELSE scan_fetched(up, a, campaigns, i, opportunities, reqs,
             get_campaign_statistics(up, Len(reqs),
                 dated([campaign_id |-> campaigns[i]["id"]], a)))

\* server.py:809-826
opportunities_report(scan) ==
    IF scan.exc # "" THEN scan
    ELSE IF scan.ret = <<>> THEN NoData(scan.reqs)
    ELSE Returned(Text("report", by_roi(scan.ret), Len(scan.ret), 0, <<>>),
                  scan.reqs)

\* server.py:789-826  after the campaign listing
scaling_opportunities(up, a, campaigns) ==
    IF campaigns.exc # "" THEN campaigns
    ELSE IF campaigns.ret = <<>> THEN NoData(campaigns.reqs)
    ELSE opportunities_report(
             scan_campaigns(up, a, campaigns.ret, 1, <<>>, campaigns.reqs))

\* server.py:787-826
find_scaling_opportunities(up, a) ==
    scaling_opportunities(up, a, list_campaigns(up, 0, [status |-> "active"]))

\* server.py:621-626  change(v1, v2): "N/A", or the arrow and the percentage
\* (held in tenths, as "+.1f" prints it).  None in the arithmetic raises.
change(v1, v2) ==
    IF v1 = 0 THEN Return([na |-> TRUE, arrow |-> "", pct |-> 0])
    ELSE IF v1 = None \/ v2 = None THEN Raise("TypeError")
    ELSE LET num == IF v1 > 0 THEN (v2 - v1) * 100 ELSE (v1 - v2) * 100
             den == IF v1 > 0 THEN v1 ELSE 0 - v1
         IN  Return([na |-> FALSE,
                     arrow |-> IF num > 0 THEN "up"
                               ELSE IF num < 0 THEN "down" ELSE "flat",
                     pct |-> round(num, den, 10)])

\* One table row from the change c of its two values.
row_of(metric, v1, v2, c) ==
    IF c.exc # "" THEN c
    ELSE Return([metric |-> metric, v1 |-> v1, v2 |-> v2, na |-> c.ret.na,
                 arrow |-> c.ret.arrow, pct |-> c.ret.pct])

\* server.py:634-639  one table row.  The rows of impressions, clicks and
\* conversions print the values with "{:,}", which raises on None.
period_row(metric, v1, v2) ==
    IF metric \in {"impressions", "clicks", "conversions"}
       /\ (v1 = None \/ v2 = None)
    THEN Raise("TypeError")
    ELSE row_of(metric, v1, v2, change(v1, v2))

TrackedMetrics == <<"impressions", "clicks", "ctr", "conversions", "spend", "roi">>

\* server.py:628-640  the table, unless a row raised
period_table(rows, reqs) ==
    IF \E i \in DOMAIN rows : rows[i].exc # ""
    THEN Raised("TypeError", "unsupported operand", reqs)
    ELSE Returned(Text("report", Map(LAMBDA r : r.ret, rows), Len(rows), 0, <<>>),
                  reqs)

\* server.py:618-640  from the two enriched snapshots
comparison(m1, m2, reqs) ==
    IF m1.exc # "" \/ m2.exc # ""
    THEN Raised("ZeroDivisionError", "division by zero", reqs)
    ELSE period_table(
             [i \in DOMAIN TrackedMetrics |->
                 period_row(TrackedMetrics[i],
                            get(m1.ret, TrackedMetrics[i], 0),
                            get(m2.ret, TrackedMetrics[i], 0))], reqs)

\* server.py:618, 619  stats[0] if stats else {}
first_record(rows) == IF rows # <<>> THEN rows[1] ELSE NoDict

\* server.py:612-640  after the second fetch
compared(stats1, stats2) ==
    IF stats2.exc # ""
    THEN Raised(stats2.exc, stats2.detail, stats1.reqs \o stats2.reqs)
    ELSE comparison(calculate_metrics(first_record(stats1.ret)),
                    calculate_metrics(first_record(stats2.ret)),
                    stats1.reqs \o stats2.reqs)

\* server.py:612-640  after the first fetch
second_period(up, a, stats1) ==
    IF stats1.exc # "" THEN stats1
    ELSE IF ~({"period2_from", "period2_to"} \subseteq DOMAIN a)
    THEN KeyError("period2_from", stats1.reqs)
    ELSE compared(stats1,
             get_statistics(up, Len(stats1.reqs),
                 [date_from |-> a["period2_from"], date_to |-> a["period2_to"],
                  campaign_id |-> get(a, "campaign_id", None)]))

\* server.py:606-640
compare_periods(up, a) ==
    IF ~({"period1_from", "period1_to"} \subseteq DOMAIN a)
    THEN KeyError("period1_from", <<>>)
    ELSE second_period(up, a,
             get_statistics(up, 0,
                 [date_from |-> a["period1_from"], date_to |-> a["period1_to"],
                  campaign_id |-> get(a, "campaign_id", None)]))

\* server.py:831  the confirmation
added(r, zone_ids) ==
    IF r.exc # "" THEN r
    ELSE Returned(Text("blacklisted", <<>>, Len(zone_ids), 0, zone_ids), r.reqs)

\* server.py:829-831
add_to_blacklist(up, a) ==
    IF "campaign_id" \notin DOMAIN a THEN KeyError("campaign_id", <<>>)
    ELSE IF "zone_ids" \notin DOMAIN a THEN KeyError("zone_ids", <<>>)
    ELSE added(add_zones_to_blacklist(up, 0, a["campaign_id"], a["zone_ids"]),
               a["zone_ids"])

\* server.py:870-876  after the mutation r
blacklisted(r, underperforming, zone_ids, total_spend, reqs) ==
    IF r.exc # "" THEN Raised(r.exc, r.detail, reqs \o r.reqs)
    ELSE Returned(Text("blacklisted", underperforming, Len(zone_ids),
                       total_spend, zone_ids), reqs \o r.reqs)

\* server.py:861-876
blacklist(up, a, underperforming, zone_ids, total_spend, reqs) ==
    IF get(a, "dry_run", TRUE)
    THEN Returned(Text("dry_run", underperforming, Len(zone_ids), total_spend,
                       zone_ids), reqs)
    ELSE blacklisted(add_zones_to_blacklist(up, Len(reqs), a["campaign_id"],
                                            zone_ids),
                     underperforming, zone_ids, total_spend, reqs)

\* server.py:855-876
blacklist_candidates(up, a, underperforming, reqs) ==
    IF underperforming = <<>> THEN NoData(reqs)
    ELSE blacklist(up, a, underperforming, zone_ids_of(underperforming),
                   sum(Map(zone_spend, underperforming)), reqs)

\* server.py:844-876  after the fetch
auto_blacklist(up, a, zones) ==
    IF zones.exc # "" THEN zones
    ELSE blacklist_candidates(up, a, underperforming_of(zones.ret, a), zones.reqs)

\* server.py:837-876
auto_blacklist_zones(up, a) ==
    IF "campaign_id" \notin DOMAIN a THEN KeyError("campaign_id", <<>>)
    ELSE auto_blacklist(up, a,
             get_zone_statistics(up, 0,
                 dated([campaign_id |-> a["campaign_id"]], a)))

\* server.py:493-504  the campaigns, one entry each
campaigns_report(campaigns) ==
    IF campaigns.exc # "" THEN campaigns
    ELSE IF campaigns.ret = <<>> THEN NoData(campaigns.reqs)
    ELSE Returned(Text("report", campaigns.ret, Len(campaigns.ret), 0, <<>>),
                  campaigns.reqs)

\* server.py:487-504  the list_campaigns branch of handle_tool
handle_list_campaigns(up, a) ==
    campaigns_report(
        list_campaigns(up, 0, [status |-> get(a, "status", None),
                               ad_format |-> get(a, "ad_format", None),
                               name |-> get(a, "name", None)]))

\* server.py:656  the sort keys x.get(sort_by, 0)
sort_keys(enriched, sort_by) == Map(LAMBDA x : get(x, sort_by, 0), enriched)

\* server.py:662-672  a row prints impressions and clicks with "{:,}", which
\* raises on None
row_prints(z) ==
    get(z, "impressions", 0) # None /\ get(z, "clicks", 0) # None

\* server.py:658-674  the table of the first `limit` sorted zones
zone_table(sorted, limit, reqs) ==
    IF \E i \in DOMAIN Take(sorted, limit) : ~row_prints(sorted[i])
    THEN Raised("TypeError", "unsupported format string", reqs)
    ELSE Returned(Text("report", Take(sorted, limit),
                       Len(Take(sorted, limit)), 0, <<>>), reqs)

\* server.py:655-674  sorted by the key, descending; comparing None with
\* another key raises
zones_sorted(enriched, keys, limit, reqs) ==
    IF Len(keys) > 1 /\ \E i \in DOMAIN keys : keys[i] = None
    THEN Raised("TypeError", "'<' not supported", reqs)
    ELSE zone_table(sort_desc(enriched, keys), limit, reqs)

\* server.py:652-674
zone_performance_of(enriched, a, reqs) ==
    IF enriched.exc # "" THEN Raised(enriched.exc, "division by zero", reqs)
    ELSE zones_sorted(enriched.ret,
                      sort_keys(enriched.ret, get(a, "sort_by", "spend")),
                      get(a, "limit", 100), reqs)

\* server.py:649-674  after the fetch
zone_performance(zones, a) ==
    IF zones.exc # "" THEN zones
    ELSE IF zones.ret = <<>> THEN NoData(zones.reqs)
    ELSE zone_performance_of(enriched_of(Map(calculate_metrics, zones.ret)), a,
                             zones.reqs)

\* server.py:642-674
get_zone_performance(up, a) ==
    zone_performance(
        get_zone_statistics(up, 0,
            dated([campaign_id |-> get(a, "campaign_id", None),
                   limit |-> get(a, "limit", 100)], a)), a)

\* server.py:481-892  the branches of handle_tool
handle_tool(up, nm, a) ==
    CASE nm = "list_campaigns" -> handle_list_campaigns(up, a)
      [] nm = "get_zone_performance" -> get_zone_performance(up, a)
      [] nm = "compare_periods" -> compare_periods(up, a)
      [] nm = "find_underperforming_zones" -> find_underperforming_zones(up, a)
      [] nm = "find_top_zones" -> find_top_zones(up, a)
      [] nm = "find_scaling_opportunities" -> find_scaling_opportunities(up, a)
      [] nm = "add_to_blacklist" -> add_to_blacklist(up, a)
      [] nm = "auto_blacklist_zones" -> auto_blacklist_zones(up, a)
      [] OTHER -> Returned(Text("unknown_tool", <<>>, 0, 0, <<>>), <<>>)

\* get_client without its `if _client is None`: a client is constructed on
\* every call.
constructs_always(tok, cached) == tok

\* server.py:28, 29 with client.py:50-56.  get_client constructs a client:
\* none is cached and the constructor finds a token.
constructs(tok, cached) == cached = "None" /\ tok

\* server.py:25-30 with client.py:50-56.  The cached client, or a new one;
\* the constructor raises when no token is configured.
get_client(tok, cached) ==
    IF constructs(tok, cached) THEN Returned("PropellerAdsClient", <<>>)
    ELSE IF cached # "None" THEN Returned(cached, <<>>)
    ELSE Raised("PropellerAdsError", "API token required", <<>>)

\* server.py:476, 478  the text of an error result
ErrorText(kind, detail) ==
    [kind |-> kind, rows |-> <<>>, count |-> 0, total |-> 0, ids |-> <<>>,
     detail |-> detail]

\* The try block with `except PropellerAdsError` alone: any other exception
\* leaves call_tool and no text is returned.
reply_reraising(out) ==
    IF out.exc = "" THEN out.ret
    ELSE IF out.exc = "PropellerAdsError" THEN ErrorText("api_error", out.detail)
    ELSE ErrorText("none", out.detail)

\* server.py:474-478  the text returned for the outcome of the try block
reply(out) ==
    IF out.exc = "" THEN out.ret
    ELSE IF out.exc = "PropellerAdsError" THEN ErrorText("api_error", out.detail)
    ELSE ErrorText("error", out.detail)

\* The cached client dropped when the handler raises.
respond_resetting(c, h) ==
    /\ _client' = IF c.exc = "" /\ h.exc = "" THEN c.ret ELSE "None"
    /\ requests' = IF c.exc = "" THEN h.reqs ELSE <<>>
    /\ result' = IF c.exc = "" THEN reply(h) ELSE reply(c)

\* server.py:471-478  c is the outcome of get_client, h of handle_tool (which
\* runs only when c returned)
respond(c, h) ==
    /\ _client' = IF c.exc = "" THEN c.ret ELSE _client
    /\ requests' = IF c.exc = "" THEN h.reqs ELSE <<>>
    /\ result' = IF c.exc = "" THEN reply(h) ELSE reply(c)

\* server.py:468-478.  handle_tool has no await that yields, so an invocation
\* runs from get_client to its return in one step.
call_tool(nm, a, up) ==
    /\ respond(get_client(token, _client), handle_tool(up, nm, a))
    /\ constructed' = IF constructs(token, _client) THEN constructed + 1
                      ELSE constructed

(*************************** inputs ****************************************)
BaseKeys == {"impressions", "clicks", "conversions", "spend", "cost", "revenue"}
Values == (0 .. MaxVal) \cup {None}
StatRecords == UNION { [K -> Values] : K \in SUBSET BaseKeys }

NotCalled == Raise("NotCalled")
NoResult == ErrorText("none", "")
NoUpstream == [campaigns |-> <<>>, zones |-> <<>>, stats |-> <<>>,
               wrap |-> "result", fail |-> 0, failKind |-> ""]

\* The dicts that give some of the keys of S a value of S[k].
Dicts(S) ==
    UNION { {f \in [K -> UNION {S[k] : k \in K}] : \A k \in K : f[k] \in S[k]}
            : K \in SUBSET DOMAIN S }

\* Sequences of at most n elements of S.
SeqsUpTo(S, n) == UNION { [1 .. k -> S] : k \in 0 .. n }

\* Zone rows as the statistics endpoint groups them: a wasteful zone, a cheap
\* one, a converting one, one that reports its spend under "cost" with a zero
\* "spend", one without a zone id.
ZoneRecords ==
    { [zone_id |-> 1, spend |-> 15, conversions |-> 0, clicks |-> 40],
      [zone_id |-> 2, spend |-> 5, conversions |-> 0, clicks |-> 9],
      [zone_id |-> 3, spend |-> 20, conversions |-> 2, revenue |-> 50],
      [zone_id |-> 4, spend |-> 0, cost |-> 15, conversions |-> 0],
      [zone_id |-> 0, spend |-> 15, conversions |-> 5, revenue |-> 45] }
ZoneLists == SeqsUpTo(ZoneRecords, MaxZones)

\* Aggregate rows of a campaign or of a period.
AggregateRecords ==
    { [impressions |-> 1000, clicks |-> 100, conversions |-> 12,
       spend |-> 10, revenue |-> 30],
      [impressions |-> 500, clicks |-> 20, conversions |-> 12,
       cost |-> 20, revenue |-> 10] }
StatLists == SeqsUpTo(AggregateRecords, 1)

CampaignIds == 1 .. MaxCampaigns
Campaign(i) == [id |-> i, name |-> i]
CampaignLists ==
    { s \in SeqsUpTo({Campaign(i) : i \in CampaignIds}, MaxCampaigns) :
        \A i, j \in 1 .. Len(s) : i # j => s[i] # s[j] }

\* Which request of the invocation fails, and how: an HTTP error status, a
\* transport fault, or a 2xx answer whose body is not JSON.
Failures ==
    {[fail |-> 0, failKind |-> ""]}
    \cup [fail : 1 .. MaxCampaigns + 1, failKind : {"http", "transport", "json"}]

\* The remote side during one invocation; a tool is given the data of the
\* endpoints its branch names.
Upstreams(campaignLists, statMaps, zoneLists) ==
    { [campaigns |-> c, stats |-> s, zones |-> z, wrap |-> w,
       fail |-> f.fail, failKind |-> f.failKind] :
      c \in campaignLists, s \in statMaps, z \in zoneLists,
      w \in {"result", "other"}, f \in Failures }

UpstreamsOf(nm) ==
    CASE nm \in {"find_underperforming_zones", "find_top_zones",
                 "auto_blacklist_zones", "get_zone_performance"} ->
             Upstreams({<<>>}, {<<>>}, ZoneLists)
      [] nm = "find_scaling_opportunities" ->
             Upstreams(CampaignLists, [CampaignIds -> StatLists], {<<>>})
      [] nm = "list_campaigns" ->
             Upstreams(CampaignLists, {<<>>}, {<<>>})
      [] nm = "compare_periods" ->
             Upstreams({<<>>}, [1 .. 2 -> StatLists], {<<>>})
      [] OTHER -> Upstreams({<<>>}, {<<>>}, {<<>>})

ZoneArgs == Dicts([campaign_id |-> {1}, min_spend |-> {5}, max_conversions |-> {2}])

ArgsOf(nm) ==
    CASE nm = "find_underperforming_zones" -> ZoneArgs
      [] nm = "list_campaigns" -> Dicts([status |-> {"active"}])
      [] nm = "get_zone_performance" ->
             { merge(a, s) : a \in Dicts([campaign_id |-> {1}, limit |-> {1}]),
                             s \in {NoDict, [sort_by |-> "roi"]} }
      [] nm = "find_top_zones" ->
             Dicts([campaign_id |-> {1}, min_roi |-> {200}, limit |-> {1}])
      [] nm = "find_scaling_opportunities" ->
             Dicts([min_roi |-> {0 - 100}, min_conversions |-> {20}])
      [] nm = "compare_periods" ->
             { [period1_from |-> 1, period1_to |-> 1,
                period2_from |-> 2, period2_to |-> 2],
               [period1_from |-> 1, period1_to |-> 1] }
      [] nm = "add_to_blacklist" ->
             { [campaign_id |-> 1, zone_ids |-> <<7>>],
               [campaign_id |-> 1, zone_ids |-> <<7, 8>>],
               [campaign_id |-> 1] }
      [] nm = "auto_blacklist_zones" ->
             { merge(a, d) : a \in ZoneArgs,
                             d \in {NoDict, [dry_run |-> TRUE], [dry_run |-> FALSE]} }
      [] OTHER -> {NoDict}

(*************************** calculate_metrics applied *********************)
InitMetrics ==
    /\ stats \in StatRecords
    /\ metrics = NotCalled
    /\ token = TRUE
    /\ _client = "None"
    /\ constructed = 0
    /\ name = ""
    /\ args = NoDict
    /\ upstream = NoUpstream
    /\ requests = <<>>
    /\ result = NoResult

\* The enrichment written into the caller's record (stats.update(...)).
Enrich_in_place ==
    /\ metrics.exc = "NotCalled"
    /\ metrics' = calculate_metrics(stats)
    /\ stats' = metrics'.ret
    /\ UNCHANGED toolVars

\* calculate_metrics(stats): the record is enriched.
Enrich ==
    /\ metrics.exc = "NotCalled"
    /\ metrics' = calculate_metrics(stats)
    /\ UNCHANGED <<stats, toolVars>>

\* calculate_metrics(calculate_metrics(stats)): the enriched record is the
\* input of a second call.
EnrichAgain ==
    /\ metrics.exc = ""
    /\ stats # metrics.ret
    /\ stats' = metrics.ret
    /\ metrics' = calculate_metrics(metrics.ret)
    /\ UNCHANGED toolVars

NextMetrics ==
    \/ Enrich
    \/ EnrichAgain

SpecMetrics == InitMetrics /\ [][NextMetrics]_vars

(*************************** change applied *********************************)
\* The two values of a tracked metric; roi, in hundredths, may be negative.
ChangeValues == (0 - MaxChange) .. MaxChange

InitChange ==
    /\ stats \in [v1 : ChangeValues, v2 : ChangeValues]
    /\ metrics = NotCalled
    /\ token = TRUE
    /\ _client = "None"
    /\ constructed = 0
    /\ name = ""
    /\ args = NoDict
    /\ upstream = NoUpstream
    /\ requests = <<>>
    /\ result = NoResult

\* change(v1, v2), as compare_periods calls it for a table row
Change ==
    /\ metrics.exc = "NotCalled"
    /\ metrics' = change(stats.v1, stats.v2)
    /\ UNCHANGED <<stats, toolVars>>

NextChange == Change

SpecChange == InitChange /\ [][NextChange]_vars

(*************************** the server *************************************)
Tools == {"list_campaigns", "compare_periods", "get_zone_performance",
          "find_underperforming_zones", "find_top_zones",
          "find_scaling_opportunities", "add_to_blacklist",
          "auto_blacklist_zones", "no_such_tool"}

\* The server as started, the client not yet created, with the invocation that
\* reaches it (name, args) and the remote side it will meet (upstream).
Init ==
    /\ stats = NoDict
    /\ metrics = NotCalled
    /\ token \in BOOLEAN
    /\ _client = "None"
    /\ constructed = 0
    /\ name \in Tools
    /\ args \in ArgsOf(name)
    /\ upstream \in UpstreamsOf(name)
    /\ requests = <<>>
    /\ result = NoResult

\* What an invocation leaves alone: the environment and the invocation itself.
frame == UNCHANGED <<stats, metrics, token, name, args, upstream>>

\* One action per tool: the invocation of that tool is handled (again, when
\* the caller repeats it).
ListCampaigns ==
    /\ name = "list_campaigns"
    /\ call_tool(name, args, upstream)
    /\ frame

GetZonePerformance ==
    /\ name = "get_zone_performance"
    /\ call_tool(name, args, upstream)
    /\ frame

ComparePeriods ==
    /\ name = "compare_periods"
    /\ call_tool(name, args, upstream)
    /\ frame

FindUnderperformingZones ==
    /\ name = "find_underperforming_zones"
    /\ call_tool(name, args, upstream)
    /\ frame

FindTopZones ==
    /\ name = "find_top_zones"
    /\ call_tool(name, args, upstream)
    /\ frame

FindScalingOpportunities ==
    /\ name = "find_scaling_opportunities"
    /\ call_tool(name, args, upstream)
    /\ frame

AddToBlacklist ==
    /\ name = "add_to_blacklist"
    /\ call_tool(name, args, upstream)
    /\ frame

AutoBlacklistZones ==
    /\ name = "auto_blacklist_zones"
    /\ call_tool(name, args, upstream)
    /\ frame

\* A name no branch of handle_tool matches.
UnknownTool ==
    /\ name \notin Tools \ {"no_such_tool"}
    /\ call_tool(name, args, upstream)
    /\ frame

Next ==
    \/ ListCampaigns
    \/ GetZonePerformance
    \/ ComparePeriods
    \/ FindUnderperformingZones
    \/ FindTopZones
    \/ FindScalingOpportunities
    \/ AddToBlacklist
    \/ AutoBlacklistZones
    \/ UnknownTool

Spec == Init /\ [][Next]_vars

(*************************** calculate_metrics: properties *****************)
Called == metrics.exc # "NotCalled"

\* C1: calculate_metrics never fails with a division by zero, and yields
\* ctr = 0 when impressions = 0, cvr = 0 and cpc = 0 when clicks = 0, cpa = 0
\* when conversions = 0, and roi = 0 when the resolved spend = 0.
C1_ZeroGuards ==
    Called =>
        /\ metrics.exc = ""
        /\ base(stats, "impressions") = 0 => metrics.ret["ctr"] = 0
        /\ base(stats, "clicks") = 0 =>
               metrics.ret["cvr"] = 0 /\ metrics.ret["cpc"] = 0
        /\ base(stats, "conversions") = 0 => metrics.ret["cpa"] = 0
        /\ resolved_spend(stats) = 0 => metrics.ret["roi"] = 0

\* A record with every divisor zero and a non-zero revenue has been enriched.
C1_Witness ==
    /\ Called
    /\ base(stats, "impressions") = 0
    /\ base(stats, "clicks") = 0
    /\ base(stats, "conversions") = 0
    /\ resolved_spend(stats) = 0
    /\ base(stats, "revenue") > 0

\* C2: the spend read by the underperforming-zone filter, sort and total and
\* by the spend row of compare_periods equals the spend calculate_metrics
\* resolves ('spend', or 'cost' when 'spend' is absent or zero-like).
C2_SpendResolvedEverywhere ==
    (Called /\ metrics.exc = "") =>
        /\ zone_spend(stats) = resolved_spend(stats)
        /\ period_spend(metrics.ret) = resolved_spend(stats)

\* The record with every absent or null base field set to 0.
Filled(s) ==
    [k \in BaseKeys |-> IF k \in DOMAIN s /\ s[k] # None THEN s[k] ELSE 0]

\* C12: whatever subset of impressions, clicks, conversions, spend, cost and
\* revenue is absent or null, calculate_metrics completes, computes what it
\* computes for the record with those fields set to 0, and returns a record
\* in which ctr, cvr, cpc, cpa and roi are all present and are numbers.
C12_MissingFieldsAsZero ==
    Called =>
        /\ metrics.exc = ""
        /\ DerivedKeys \subseteq DOMAIN metrics.ret
        /\ \A k \in DerivedKeys :
               /\ metrics.ret[k] \in Int
               /\ metrics.ret[k] # None
               /\ metrics.ret[k] = calculate_metrics(Filled(stats)).ret[k]

\* A record with a null field, an absent field and values that make the
\* derived fields non-zero has been enriched.
C12_Witness ==
    /\ Called
    /\ DOMAIN stats = {"impressions", "clicks", "spend", "revenue"}
    /\ stats["impressions"] = None
    /\ stats["clicks"] = 2
    /\ stats["spend"] = 1
    /\ stats["revenue"] = 3
    /\ metrics.ret["roi"] = 20000

C14_EnrichmentIdempotent ==
    (Called /\ DerivedKeys \subseteq DOMAIN stats) =>
        /\ metrics.exc = ""
        /\ metrics.ret = stats

\* An enriched record with non-zero derived fields has been enriched again.
C14_Witness ==
    /\ Called
    /\ DerivedKeys \subseteq DOMAIN stats
    /\ stats["ctr"] > 0
    /\ stats["roi"] > 0
    /\ stats["cpa"] > 0

\* The record with its 'cost' moved to 'spend'.
CostAsSpend(s) ==
    [k \in ((DOMAIN s) \ {"cost"}) \cup {"spend"} |->
        IF k = "spend" THEN s["cost"] ELSE s[k]]

\* C15: a record with 'spend' absent and cost = s is enriched to the same
\* five derived fields as the record with spend = s and 'cost' absent, the
\* other fields being the same.
C15_CostAsSpend ==
    (Called /\ "cost" \in DOMAIN stats /\ "spend" \notin DOMAIN stats) =>
        \A k \in DerivedKeys :
            metrics.ret[k] = calculate_metrics(CostAsSpend(stats)).ret[k]

\* A record with a cost, no spend and a revenue has been enriched to a
\* non-zero roi.
C15_Witness ==
    /\ Called
    /\ "cost" \in DOMAIN stats
    /\ "spend" \notin DOMAIN stats
    /\ stats["cost"] = 2
    /\ metrics.ret["roi"] > 0
    /\ metrics.ret["cpa"] > 0

(*************************** the tools: properties **************************)
\* The invocation has returned.
Done == result.kind # "none"

\* The token is configured and the remote API answers every request with a
\* 2xx status and the standard envelope.
Healthy == token /\ upstream.fail = 0 /\ upstream.wrap = "result"

\* The result is a report or a no-data message, not an error.
Reported == result.kind \in {"report", "no_data"}

\* conversions of a record, 0 when missing
conversions_of(z) == base(z, "conversions")

\* C3: the zones find_underperforming_zones is to report: resolved spend >=
\* min_spend and conversions <= max_conversions, by resolved spend descending,
\* equal spends in input order.
C3_Expected ==
    LET sel == SelectSeq(upstream.zones, LAMBDA z :
                   /\ resolved_spend(z) >= get(args, "min_spend", 10)
                   /\ conversions_of(z) <= get(args, "max_conversions", 0))
    IN  sort_desc(sel, Map(resolved_spend, sel))

\* C3: find_underperforming_zones reports exactly the zones with resolved
\* spend >= min_spend and conversions <= max_conversions, ordered by resolved
\* spend descending (stable), with their count and the sum of their resolved
\* spend.
C3_UnderperformingReported ==
    (name = "find_underperforming_zones" /\ Done /\ Healthy
     /\ "campaign_id" \in DOMAIN args) =>
        /\ Reported
        /\ result.rows = C3_Expected
        /\ result.count = Len(C3_Expected)
        /\ result.total = sum(Map(resolved_spend, C3_Expected))

\* C4: the zones find_top_zones is to report: enriched, conversions >=
\* min_conversions and roi >= min_roi, by roi descending, the first `limit`.
C4_Expected ==
    LET enriched == Map(LAMBDA z : calculate_metrics(z).ret, upstream.zones)
        sel == SelectSeq(enriched, LAMBDA z :
                   /\ conversions_of(z) >= get(args, "min_conversions", 1)
                   /\ z["roi"] >= get(args, "min_roi", 0) * 100)
    IN  Take(sort_desc(sel, Map(LAMBDA z : z["roi"], sel)), get(args, "limit", 20))

\* C4: find_top_zones enriches every zone record, keeps those with
\* conversions >= min_conversions and roi >= min_roi, orders them by roi
\* descending and reports at most `limit` of them, the highest-roi ones.
C4_TopZonesReported ==
    (name = "find_top_zones" /\ Done /\ Healthy
     /\ "campaign_id" \in DOMAIN args) =>
        /\ Reported
        /\ result.rows = C4_Expected

\* C5: in find_underperforming_zones and find_top_zones the reported zone-id
\* list has exactly one identifier per reported record, in the records' order.
C5_ZoneIdsMatchRows ==
    (name \in {"find_underperforming_zones", "find_top_zones"} /\ Done
     /\ Healthy /\ "campaign_id" \in DOMAIN args) =>
        /\ Reported
        /\ Len(result.ids) = Len(result.rows)
        /\ \A i \in DOMAIN result.rows :
               result.ids[i] = get(result.rows[i], "zone_id", None)

\* The campaigns the listing returns, and the statistics record (or none) the
\* remote API holds for a campaign.
Listed == { upstream.campaigns[i] : i \in DOMAIN upstream.campaigns }
HasStatistics(c) == upstream.stats[c["id"]] # <<>>

\* The combined record of a campaign with statistics, and whether it meets
\* the thresholds of find_scaling_opportunities.
Combined(c) == merge(c, calculate_metrics(upstream.stats[c["id"]][1]).ret)
Qualifies(c) ==
    /\ HasStatistics(c)
    /\ conversions_of(Combined(c)) >= get(args, "min_conversions", 10)
    /\ Combined(c)["roi"] >= get(args, "min_roi", 50) * 100

RowIds == { result.rows[i]["id"] : i \in DOMAIN result.rows }

\* C6: in find_scaling_opportunities a campaign without statistics for the
\* period is left out of the output, no error is reported, and the other
\* campaigns are still evaluated.
C6_NoStatisticsExcluded ==
    (name = "find_scaling_opportunities" /\ Done /\ Healthy
     /\ \E c \in Listed : ~HasStatistics(c)) =>
        /\ Reported
        /\ \A c \in Listed : ~HasStatistics(c) => c["id"] \notin RowIds
        /\ \A c \in Listed : Qualifies(c) => c["id"] \in RowIds

\* The statistics fetch of some listed campaign fails (the listing, request
\* 1, succeeds; campaigns are fetched in the order listed, by id descending).
StatisticsFetchFails ==
    /\ token
    /\ upstream.wrap = "result"
    /\ upstream.fail \in 2 .. Len(upstream.campaigns) + 1

FailedCampaign ==
    sort_desc(upstream.campaigns,
              Map(LAMBDA c : c["id"], upstream.campaigns))[upstream.fail - 1]

\* C7: in find_scaling_opportunities a failed statistics fetch for one
\* campaign does not abort the batch: the other campaigns are evaluated and
\* the qualifying ones reported.
C7_FailedFetchDoesNotAbort ==
    (name = "find_scaling_opportunities" /\ Done /\ StatisticsFetchFails) =>
        /\ Reported
        /\ \A c \in Listed :
               (Qualifies(c) /\ c # FailedCampaign) => c["id"] \in RowIds

\* C8: find_scaling_opportunities outputs exactly the listed campaigns whose
\* enriched statistics meet both thresholds, each as the campaign's fields
\* combined with its enriched metrics, ordered by roi descending.
C8_ScalingOpportunitiesReported ==
    (name = "find_scaling_opportunities" /\ Done /\ Healthy) =>
        /\ Reported
        /\ { result.rows[i] : i \in DOMAIN result.rows }
              = { Combined(c) : c \in {x \in Listed : Qualifies(x)} }
        /\ Len(result.rows) = Cardinality({x \in Listed : Qualifies(x)})
        /\ \A i, j \in DOMAIN result.rows :
               i < j => result.rows[i]["roi"] >= result.rows[j]["roi"]

\* The enriched snapshot of period p (the record the remote API holds for its
\* dates, an all-zero record when it holds none), and a tracked value of it.
Snapshot(p) == calculate_metrics(first_record(get(upstream.stats, p, <<>>))).ret
Tracked(m, metric) == IF metric = "spend" THEN resolved_spend(m) ELSE base(m, metric)

\* (v2 - v1) / v1 * 100 in tenths, v1 # 0
PercentChange(v1, v2) ==
    IF v1 > 0 THEN round((v2 - v1) * 100, v1, 10)
    ELSE round((v1 - v2) * 100, 0 - v1, 10)

\* C9: compare_periods reports, for each of the six tracked metrics, the
\* change as not applicable exactly when the period-1 value is 0 and otherwise
\* as (v2 - v1) / v1 * 100; an empty fetch result counts as an all-zero
\* record, and no execution ends in an error.
C9_ChangeNotApplicableAtZero ==
    (name = "compare_periods" /\ Done /\ token /\ upstream.fail = 0
     /\ {"period1_from", "period1_to", "period2_from", "period2_to"}
            \subseteq DOMAIN args) =>
        /\ result.kind = "report"
        /\ Len(result.rows) = Len(TrackedMetrics)
        /\ \A i \in DOMAIN TrackedMetrics :
               LET v1 == Tracked(Snapshot(args["period1_from"]), TrackedMetrics[i])
                   v2 == Tracked(Snapshot(args["period2_from"]), TrackedMetrics[i])
               IN  /\ result.rows[i].na <=> v1 = 0
                   /\ v1 # 0 => result.rows[i].pct = PercentChange(v1, v2)

\* A request of the invocation was attempted and failed.
FetchFailed == Done /\ upstream.fail \in 1 .. Len(requests)

\* C10: when a fetch fails, the failing request was attempted exactly once
\* and nothing was attempted after it, the caller of the tool receives that
\* failure with its detail unchanged, and no report or no-data message built
\* from earlier records is returned.
C10_FailurePropagatedOnce ==
    FetchFailed =>
        /\ Len(requests) = upstream.fail
        /\ result.kind = IF upstream.failKind = "json" THEN "error" ELSE "api_error"
        /\ result.detail = upstream.failKind
        /\ result.rows = <<>> /\ result.ids = <<>>

\* The campaign listing of find_scaling_opportunities failed with an HTTP
\* error status and the caller received the API error.
C10_Witness ==
    /\ FetchFailed
    /\ name = "find_scaling_opportunities"
    /\ upstream.failKind = "http"
    /\ requests[upstream.fail].endpoint = "/adv/campaigns"
    /\ result.kind = "api_error"

\* The tools that select records, and an upstream that holds nothing for them
\* to select from.
SelectionTools ==
    {"find_underperforming_zones", "find_top_zones", "find_scaling_opportunities"}
NothingToSelect == upstream.zones = <<>> /\ upstream.campaigns = <<>>

\* C11: for a selection tool, a fetch that succeeds with nothing to select
\* is reported as a no-data result, never as an error, and a fetch that fails
\* is reported as an error, never as a no-data result or a report.
C11_EmptyDistinctFromFailure ==
    (name \in SelectionTools /\ Done /\ token
     /\ (name # "find_scaling_opportunities" => "campaign_id" \in DOMAIN args)) =>
        /\ (upstream.fail = 0 /\ NothingToSelect) => result.kind = "no_data"
        /\ FetchFailed => result.kind \in {"api_error", "error"}

\* A mutating request of the invocation.
Mutations == { i \in DOMAIN requests : requests[i].method = "POST" }

\* C16: auto_blacklist_zones with dry_run true or omitted issues no mutating
\* request and reports the candidate zones (or that there are none);
\* find_underperforming_zones and find_top_zones never issue a mutating
\* request.
C16_DryRunGatesMutation ==
    /\ name \in {"find_underperforming_zones", "find_top_zones"} =>
           Mutations = {}
    /\ (name = "auto_blacklist_zones" /\ Done /\ Healthy
        /\ "campaign_id" \in DOMAIN args /\ get(args, "dry_run", TRUE)) =>
           /\ Mutations = {}
           /\ result.kind \in {"dry_run", "no_data"}

\* C17: invocations run one at a time to completion and share no state: an
\* invocation that has returned has left nothing in the module for a later
\* invocation to read (the client cache is as it was at start).
C17_NoSharedState ==
    /\ (requests # <<>> \/ _client # "None") => Done
    /\ Done => _client = "None"

\* C17, amended: every step is a whole invocation, from get_client to the
\* returned text; the client is the only state it leaves for later
\* invocations: it exists after any invocation made with a token configured,
\* is created only then, and once created is never written again.
C17_OnlyClientShared ==
    [][/\ result'.kind # "none"
       /\ _client # "None" => _client' = _client
       /\ _client' = IF token THEN "PropellerAdsClient" ELSE "None"]_vars

\* An invocation whose handler raised has returned and the client it created
\* is cached.
C17_Witness ==
    /\ Done
    /\ _client = "PropellerAdsClient"
    /\ result.kind = "error"
    /\ name = "find_top_zones"

\* The texts call_tool returns.
ResultKinds ==
    {"report", "no_data", "dry_run", "blacklisted", "unknown_tool",
     "api_error", "error"}

\* C18: every invocation, whatever the tool name, the arguments, the token
\* and the upstream, ends with call_tool returning one text: a report, a
\* no-data message, a confirmation or an error text; and another invocation
\* can be processed afterwards.
C18_NeverFatal ==
    /\ [][result'.kind \in ResultKinds]_vars
    /\ [](Done => ENABLED Next)

\* An invocation with a required argument missing has returned the generic
\* error text.
C18_Witness ==
    /\ Done
    /\ token
    /\ name = "add_to_blacklist"
    /\ "zone_ids" \notin DOMAIN args
    /\ result.kind = "error"
    /\ result.detail # "unexpected keyword argument"

\* C19: every failed request surfaces as the one error kind,
\* PropellerAdsError, which call_tool reports as an API error.
C19_SingleErrorKind ==
    FetchFailed => result.kind = "api_error"

\* The campaigns in the order list_campaigns returns them (by id, descending).
ListedInOrder ==
    sort_desc(upstream.campaigns, Map(LAMBDA c : c["id"], upstream.campaigns))

\* C20: with n campaigns listed and no failure, find_scaling_opportunities
\* issues the campaign-list fetch and then exactly n statistics fetches, one
\* per campaign, in list order.
C20_OneFetchPerCampaign ==
    (name = "find_scaling_opportunities" /\ Done /\ Healthy) =>
        /\ Len(requests) = 1 + Len(ListedInOrder)
        /\ requests[1].endpoint = "/adv/campaigns"
        /\ \A i \in DOMAIN ListedInOrder :
               /\ requests[i + 1].endpoint = "/adv/statistics"
               /\ requests[i + 1].campaign_id = ListedInOrder[i]["id"]

\* The reporting and optimization tools, and the arguments their schemas
\* require.
ReportingTools ==
    {"list_campaigns", "compare_periods", "get_zone_performance",
     "find_underperforming_zones", "find_top_zones",
     "find_scaling_opportunities", "auto_blacklist_zones"}
RequiredGiven ==
    /\ name \in {"find_underperforming_zones", "find_top_zones",
                 "auto_blacklist_zones"} => "campaign_id" \in DOMAIN args
    /\ name = "compare_periods" =>
           {"period1_from", "period1_to", "period2_from", "period2_to"}
               \subseteq DOMAIN args

\* C21: with the token configured and every request answered successfully,
\* each reporting and optimization tool returns a report or a no-data
\* message, never the generic error text: the keywords handle_tool passes are
\* parameters of the client method it calls.
C21_KeywordsAccepted ==
    (name \in ReportingTools /\ Done /\ Healthy /\ RequiredGiven) =>
        result.kind \in {"report", "no_data", "dry_run", "blacklisted"}

\* The zones find_underperforming_zones selects for the same upstream rows
\* and arguments.
Underperforming == underperforming_of(upstream.zones, args)

\* C22: auto_blacklist_zones selects the zones find_underperforming_zones
\* selects and reports the same total spend, and with dry_run false it sends
\* add_zones_to_blacklist exactly the ids of that selection, one per selected
\* zone, as many as it reports.
C22_SameSelectionAsUnderperforming ==
    (name = "auto_blacklist_zones" /\ Done /\ Healthy
     /\ "campaign_id" \in DOMAIN args) =>
        /\ result.kind \in {"dry_run", "blacklisted", "no_data"}
        /\ { result.rows[i] : i \in DOMAIN result.rows }
              = { Underperforming[i] : i \in DOMAIN Underperforming }
        /\ result.total = sum(Map(zone_spend, Underperforming))
        /\ (~get(args, "dry_run", TRUE) /\ Underperforming # <<>>) =>
               /\ result.count = Len(Underperforming)
               /\ Mutations # {}
               /\ \A i \in Mutations :
                      requests[i].zone_ids =
                          Map(LAMBDA z : get(z, "zone_id", None), Underperforming)

\* C23: for a non-zero period-1 value the indicator of change agrees with
\* the direction of the values: up exactly when v2 > v1, down exactly when
\* v2 < v1, flat exactly when v2 = v1, a negative v1 included.
C23_ArrowFollowsValues ==
    (Called /\ stats.v1 # 0) =>
        /\ metrics.exc = ""
        /\ metrics.ret.arrow = "up" <=> stats.v2 > stats.v1
        /\ metrics.ret.arrow = "down" <=> stats.v2 < stats.v1
        /\ metrics.ret.arrow = "flat" <=> stats.v2 = stats.v1

\* The key get_zone_performance is to rank by: sort_by, spend by default,
\* spend being resolved with the cost fallback.
RankKey(z) ==
    IF get(args, "sort_by", "spend") = "spend" THEN resolved_spend(z)
    ELSE get(z, args["sort_by"], 0)

\* The keys of all the zone rows the upstream returned, enriched, in
\* descending order.
RankedKeys ==
    LET enriched == Map(LAMBDA z : calculate_metrics(z).ret, upstream.zones)
    IN  Map(RankKey, sort_desc(enriched, Map(RankKey, enriched)))

\* C24: get_zone_performance returns the `limit` highest zones by the sort
\* key among all the zone rows the upstream returned, in descending order of
\* the key.
C24_RankedBeforeTruncated ==
    (name = "get_zone_performance" /\ Done /\ Healthy) =>
        /\ Reported
        /\ Map(RankKey, result.rows) = Take(RankedKeys, get(args, "limit", 100))

\* C25: at most one client is ever constructed; a client exists exactly when
\* one was constructed, and once cached it never changes; a construction
\* that fails for a missing token leaves the cache unset and the invocation
\* ends with the error text, so that the next invocation constructs again.
C25_ClientConstructedOnce ==
    /\ [](constructed <= 1)
    /\ []((constructed = 1) <=> (_client = "PropellerAdsClient"))
    /\ []((Done /\ ~token) =>
             /\ _client = "None"
             /\ result.kind = "api_error"
             /\ result.detail = "API token required")
    /\ [][_client # "None" => _client' = _client]_vars

\* An invocation has reached the upstream through the one client constructed.
C25_Witness ==
    /\ Done
    /\ constructed = 1
    /\ _client = "PropellerAdsClient"
    /\ name = "add_to_blacklist"
    /\ result.kind = "blacklisted"

====
